---- MODULE Spec2Model ----
(***************************************************************************)
(* Growth tracker server: the users, goals, team_memberships and          *)
(* achievements tables and the handlers createUser, updateUser,            *)
(* createGoal, updateGoal, approveGoal, createTeamMembership and           *)
(* createAchievement that read and write them.                             *)
(*                                                                         *)
(* A table is the sequence of its rows in insertion order; a row's serial  *)
(* id is its index.  Every handler runs to completion as one action and    *)
(* leaves what it returned or threw in `last`.  The race specifications    *)
(* run approveGoal and createTeamMembership one database query at a time:  *)
(* `calls` holds the requests in flight, `clock` the server's clock.       *)
(***************************************************************************)
EXTENDS Integers, Sequences, FiniteSets, TLC

VARIABLES users, goals, memberships, achievements, last, calls, clock

vars == <<users, goals, memberships, achievements, last, calls, clock>>

----------------------------------------------------------------------------
(* Bounds of the model *)

\* users and membership rows of the team specifications
MaxUsers == 3
MaxMemberships == 3
\* users and goals of the goal specification
MaxActors == 2
MaxGoals == 1
\* user ids and membership rows of the tables the cycle check is run on
MaxNodes == 3
MaxRows == 3
\* users of the user specification
MaxAccounts == 2
\* readings of the clock in the specifications in which it moves
MaxTime == 5
\* rows of the achievements table
MaxAchievements == 2

----------------------------------------------------------------------------
(* Values *)

\* SQL NULL in a nullable integer or timestamp column
NULL == -1
\* an optional input field that is absent (undefined)
UNDEF == -2

Roles == {"Employee", "Manager", "HR_Admin", "System_Admin"}
ManagementRoles == {"Manager", "HR_Admin", "System_Admin"}
GoalStatuses == {"Draft", "Pending_Approval", "Approved", "In_Progress", "Completed", "Cancelled"}

\* the one reading of the clock (new Date()) that the handlers of a run get
Now == 1
\* a date a caller passes in, different from the clock's reading
InputDate == 2

\* the two requests that the race specifications run at the same time
Requests == {"r1", "r2"}

\* a request that has not been received yet
IdleCall ==
    [op |-> "none", pc |-> "idle", a |-> NULL, b |-> NULL, goal |-> <<>>, now |-> NULL,
     node |-> NULL, visited |-> {}, stack |-> <<>>, res |-> "none"]

----------------------------------------------------------------------------
(* Queries *)

\* db.select().from(usersTable).where(eq(usersTable.id, id)): the rows found
selectUserById(id) == IF id \in 1 .. Len(users) THEN <<users[id]>> ELSE <<>>

selectUserByEmail(email) == SelectSeq(users, LAMBDA u : u.email = email)

selectGoalById(id) == IF id \in 1 .. Len(goals) THEN <<goals[id]>> ELSE <<>>

\* the membership rows with this (manager_id, employee_id) pair
selectMembership(managerId, employeeId) ==
    SelectSeq(memberships, LAMBDA r : r.manager_id = managerId /\ r.employee_id = employeeId)

\* the membership rows in which managerId is the employee: "who manages this node"
managerMemberships(managerId) ==
    SelectSeq(memberships, LAMBDA r : r.employee_id = managerId)

\* JavaScript truthiness of a nullable number: null and 0 are falsy
Truthy(n) == n # NULL /\ n # 0

----------------------------------------------------------------------------
(* createUser *)

createUserError(input) ==
    IF Len(selectUserByEmail(input.email)) > 0 THEN "User with email already exists"
    ELSE IF Truthy(input.manager_id) /\ Len(selectUserById(input.manager_id)) = 0
        THEN "Manager does not exist"
    ELSE IF Truthy(input.manager_id)
            /\ selectUserById(input.manager_id)[1].role \notin ManagementRoles
        THEN "User cannot be a manager"
    ELSE "ok"

CreateUser(input) ==
    /\ LET res == createUserError(input) IN
        /\ users' = IF res = "ok"
                    THEN Append(users, [email |-> input.email, role |-> input.role,
                                        manager_id |-> input.manager_id])
                    ELSE users
        /\ last' = [op |-> "createUser", a |-> input.email, b |-> input.manager_id, res |-> res]
    /\ UNCHANGED <<goals, memberships, achievements, calls, clock>>

----------------------------------------------------------------------------
(* updateUser *)

updateUserError(input) ==
    IF Len(selectUserById(input.id)) = 0 THEN "User not found"
    ELSE IF input.manager_id # UNDEF /\ input.manager_id # NULL
            /\ Len(selectUserById(input.manager_id)) = 0
        THEN "Manager not found"
    ELSE "ok"

\* the row after .set(updateData): only the provided fields change
updateUserRow(u, input) ==
    [email |-> IF input.email # UNDEF THEN input.email ELSE u.email,
     role |-> IF input.role # "undefined" THEN input.role ELSE u.role,
     manager_id |-> IF input.manager_id # UNDEF THEN input.manager_id ELSE u.manager_id]

UpdateUser(input) ==
    /\ LET res == updateUserError(input) IN
        /\ users' = IF res = "ok"
                    THEN [users EXCEPT ![input.id] = updateUserRow(users[input.id], input)]
                    ELSE users
        /\ last' = [op |-> "updateUser", a |-> input.id, b |-> input.manager_id, res |-> res]
    /\ UNCHANGED <<goals, memberships, achievements, calls, clock>>

----------------------------------------------------------------------------
(* createGoal *)

createGoalError(input) ==
    IF Len(selectUserById(input.employee_id)) = 0 THEN "Employee not found"
    ELSE IF Truthy(input.manager_id) /\ Len(selectUserById(input.manager_id)) = 0
        THEN "Manager not found"
    ELSE "ok"

\* the inserted row: status 'Draft', the date columns at their defaults
createGoalRow(input) ==
    [title |-> input.title, description |-> input.description, priority |-> input.priority,
     status |-> "Draft", employee_id |-> input.employee_id, manager_id |-> input.manager_id,
     due_date |-> input.due_date, completed_date |-> NULL, approval_date |-> NULL,
     created_at |-> Now, updated_at |-> Now]

CreateGoal(input) ==
    /\ LET res == createGoalError(input) IN
        /\ goals' = IF res = "ok" THEN Append(goals, createGoalRow(input)) ELSE goals
        /\ last' = [op |-> "createGoal", a |-> input.employee_id, b |-> input.manager_id,
                    res |-> res]
    /\ UNCHANGED <<users, memberships, achievements, calls, clock>>

----------------------------------------------------------------------------
(* updateGoal *)

updateGoalError(input) ==
    IF Len(selectGoalById(input.id)) = 0 THEN "Goal not found" ELSE "ok"

\* faulty variant: approval_date is set on the first entry into Approved
\* only, while the column is still null
statusApprovalDateFirstEntryOnly(current, input, now) ==
    IF input.status # "undefined" /\ input.status = "Approved" /\ current.status # "Approved"
            /\ current.approval_date = NULL
    THEN now ELSE current.approval_date

\* faulty variant: the status block leaves approval_date to approveGoal
statusApprovalDateNotSet(current, input, now) == current.approval_date

\* faulty variant: completed_date is kept when the goal leaves Completed
statusCompletedDateKept(current, input, now) ==
    IF input.status = "Completed" /\ current.status # "Completed" THEN now
    ELSE current.completed_date

\* approval_date of updateData after the status block, `now` being the
\* call's reading of the clock
statusApprovalDateAt(current, input, now) ==
    IF input.status # "undefined" /\ input.status = "Approved" /\ current.status # "Approved"
    THEN now ELSE current.approval_date

\* completed_date of updateData after the status block
statusCompletedDateAt(current, input, now) ==
    IF input.status = "undefined" THEN current.completed_date
    ELSE IF input.status # "Completed" /\ current.status = "Completed" THEN NULL
    ELSE IF input.status = "Completed" /\ current.status # "Completed" THEN now
    ELSE current.completed_date

\* faulty variant: the status block runs after the manual overrides, so a
\* date derived from the status transition replaces the date given
updateGoalRowAtStatusWins(current, input, now) ==
    LET given == [current EXCEPT
                    !.completed_date = IF input.completed_date # UNDEF
                                       THEN input.completed_date ELSE @,
                    !.approval_date = IF input.approval_date # UNDEF
                                      THEN input.approval_date ELSE @]
    IN
    [title |-> IF input.title # "undefined" THEN input.title ELSE current.title,
     description |-> IF input.description # "undefined" THEN input.description
                     ELSE current.description,
     priority |-> IF input.priority # "undefined" THEN input.priority ELSE current.priority,
     status |-> IF input.status # "undefined" THEN input.status ELSE current.status,
     employee_id |-> current.employee_id,
     manager_id |-> IF input.manager_id # UNDEF THEN input.manager_id ELSE current.manager_id,
     due_date |-> IF input.due_date # UNDEF THEN input.due_date ELSE current.due_date,
     completed_date |-> statusCompletedDateAt(given, input, now),
     approval_date |-> statusApprovalDateAt(given, input, now),
     created_at |-> current.created_at,
     updated_at |-> now]

\* faulty variant: a manager_id that is absent from the input is written as null
updateGoalRowAtAbsentIsNull(current, input, now) ==
    [title |-> IF input.title # "undefined" THEN input.title ELSE current.title,
     description |-> IF input.description # "undefined" THEN input.description
                     ELSE current.description,
     priority |-> IF input.priority # "undefined" THEN input.priority ELSE current.priority,
     status |-> IF input.status # "undefined" THEN input.status ELSE current.status,
     employee_id |-> current.employee_id,
     manager_id |-> IF input.manager_id # UNDEF THEN input.manager_id ELSE NULL,
     due_date |-> IF input.due_date # UNDEF THEN input.due_date ELSE current.due_date,
     completed_date |-> IF input.completed_date # UNDEF THEN input.completed_date
                        ELSE statusCompletedDateAt(current, input, now),
     approval_date |-> IF input.approval_date # UNDEF THEN input.approval_date
                       ELSE statusApprovalDateAt(current, input, now),
     created_at |-> current.created_at,
     updated_at |-> now]

\* the row after .set(updateData)
updateGoalRowAt(current, input, now) ==
    [title |-> IF input.title # "undefined" THEN input.title ELSE current.title,
     description |-> IF input.description # "undefined" THEN input.description
                     ELSE current.description,
     priority |-> IF input.priority # "undefined" THEN input.priority ELSE current.priority,
     status |-> IF input.status # "undefined" THEN input.status ELSE current.status,
     employee_id |-> current.employee_id,
     manager_id |-> IF input.manager_id # UNDEF THEN input.manager_id ELSE current.manager_id,
     due_date |-> IF input.due_date # UNDEF THEN input.due_date ELSE current.due_date,
     completed_date |-> IF input.completed_date # UNDEF THEN input.completed_date
                        ELSE statusCompletedDateAt(current, input, now),
     approval_date |-> IF input.approval_date # UNDEF THEN input.approval_date
                       ELSE statusApprovalDateAt(current, input, now),
     created_at |-> current.created_at,
     updated_at |-> now]

\* the same three, for the specifications in which the clock stands still
statusApprovalDate(current, input) == statusApprovalDateAt(current, input, Now)

statusCompletedDate(current, input) == statusCompletedDateAt(current, input, Now)

updateGoalRow(current, input) == updateGoalRowAt(current, input, Now)

\* faulty variant: a goal that is set to Cancelled is deleted from the table
UpdateGoalDeletesCancelled(input) ==
    /\ LET res == updateGoalError(input) IN
        /\ goals' = IF res = "ok" /\ input.status = "Cancelled"
                    THEN SubSeq(goals, 1, input.id - 1) \o SubSeq(goals, input.id + 1, Len(goals))
                    ELSE IF res = "ok"
                    THEN [goals EXCEPT ![input.id] = updateGoalRow(goals[input.id], input)]
                    ELSE goals
        /\ last' = [op |-> "updateGoal", a |-> input.id, b |-> NULL, res |-> res]
    /\ UNCHANGED <<users, memberships, achievements, calls, clock>>

UpdateGoal(input) ==
    /\ LET res == updateGoalError(input) IN
        /\ goals' = IF res = "ok"
                    THEN [goals EXCEPT ![input.id] = updateGoalRow(goals[input.id], input)]
                    ELSE goals
        /\ last' = [op |-> "updateGoal", a |-> input.id, b |-> NULL, res |-> res]
    /\ UNCHANGED <<users, memberships, achievements, calls, clock>>

----------------------------------------------------------------------------
(* approveGoal *)

\* faulty variant: System_Admin is left out of the admin roles
canApproveHrOnly(goal, managerUser, managerId) ==
    \/ goal.manager_id = managerId
    \/ managerUser.role = "HR_Admin"

\* const canApprove = goal.manager_id === managerId || role is HR_Admin || System_Admin
canApprove(goal, managerUser, managerId) ==
    \/ goal.manager_id = managerId
    \/ managerUser.role = "HR_Admin"
    \/ managerUser.role = "System_Admin"

\* faulty variant: the acting user is looked up before the goal's status is checked
approveGoalErrorUserFirst(goalId, managerId) ==
    IF Len(selectGoalById(goalId)) = 0 THEN "Goal not found"
    ELSE LET goal == selectGoalById(goalId)[1] IN
    IF Len(selectUserById(managerId)) = 0 THEN "Manager not found"
    ELSE IF goal.status # "Pending_Approval" THEN "Goal is not pending approval"
    ELSE LET managerUser == selectUserById(managerId)[1] IN
    IF managerUser.role \notin ManagementRoles
        THEN "User does not have permission to approve goals"
    ELSE IF canApprove(goal, managerUser, managerId) THEN "ok"
    ELSE IF Len(selectUserById(goal.employee_id)) = 0 THEN "Employee not found"
    ELSE IF selectUserById(goal.employee_id)[1].manager_id # managerId
        THEN "Manager does not have permission to approve this goal"
    ELSE "ok"

\* faulty variant: the employee's direct manager is not consulted
approveGoalErrorNoDirectManager(goalId, managerId) ==
    IF Len(selectGoalById(goalId)) = 0 THEN "Goal not found"
    ELSE LET goal == selectGoalById(goalId)[1] IN
    IF goal.status # "Pending_Approval" THEN "Goal is not pending approval"
    ELSE IF Len(selectUserById(managerId)) = 0 THEN "Manager not found"
    ELSE LET managerUser == selectUserById(managerId)[1] IN
    IF managerUser.role \notin ManagementRoles
        THEN "User does not have permission to approve goals"
    ELSE IF canApprove(goal, managerUser, managerId) THEN "ok"
    ELSE "Manager does not have permission to approve this goal"

\* faulty variant: the goal's status is not checked
approveGoalErrorNoStatusCheck(goalId, managerId) ==
    IF Len(selectGoalById(goalId)) = 0 THEN "Goal not found"
    ELSE LET goal == selectGoalById(goalId)[1] IN
    IF Len(selectUserById(managerId)) = 0 THEN "Manager not found"
    ELSE LET managerUser == selectUserById(managerId)[1] IN
    IF managerUser.role \notin ManagementRoles
        THEN "User does not have permission to approve goals"
    ELSE IF canApprove(goal, managerUser, managerId) THEN "ok"
    ELSE IF Len(selectUserById(goal.employee_id)) = 0 THEN "Employee not found"
    ELSE IF selectUserById(goal.employee_id)[1].manager_id # managerId
        THEN "Manager does not have permission to approve this goal"
    ELSE "ok"

approveGoalError(goalId, managerId) ==
    IF Len(selectGoalById(goalId)) = 0 THEN "Goal not found"
    ELSE LET goal == selectGoalById(goalId)[1] IN
    IF goal.status # "Pending_Approval" THEN "Goal is not pending approval"
    ELSE IF Len(selectUserById(managerId)) = 0 THEN "Manager not found"
    ELSE LET managerUser == selectUserById(managerId)[1] IN
    IF managerUser.role \notin ManagementRoles
        THEN "User does not have permission to approve goals"
    ELSE IF canApprove(goal, managerUser, managerId) THEN "ok"
    ELSE IF Len(selectUserById(goal.employee_id)) = 0 THEN "Employee not found"
    ELSE IF selectUserById(goal.employee_id)[1].manager_id # managerId
        THEN "Manager does not have permission to approve this goal"
    ELSE "ok"

\* faulty variant: the update also writes the due_date column, with its default
approveGoalRowDropsDueDate(goal, managerId) ==
    [goal EXCEPT !.status = "Approved", !.manager_id = managerId,
                 !.approval_date = Now, !.updated_at = Now, !.due_date = NULL]

\* the row after .set({status, manager_id, approval_date, updated_at})
approveGoalRow(goal, managerId) ==
    [goal EXCEPT !.status = "Approved", !.manager_id = managerId,
                 !.approval_date = Now, !.updated_at = Now]

\* faulty variant: the update is issued as soon as the goal is found pending
\* and the acting user exists, before the permission checks
ApproveGoalWriteFirst(goalId, managerId) ==
    /\ LET res == approveGoalError(goalId, managerId) IN
        /\ goals' = IF res \notin {"Goal not found", "Goal is not pending approval",
                                   "Manager not found"}
                    THEN [goals EXCEPT ![goalId] = approveGoalRow(goals[goalId], managerId)]
                    ELSE goals
        /\ last' = [op |-> "approveGoal", a |-> goalId, b |-> managerId, res |-> res]
    /\ UNCHANGED <<users, memberships, achievements, calls, clock>>

\* faulty variant: the update has no WHERE on the goal id narrower than the
\* employee, so every pending goal of the same employee is approved with it
ApproveGoalCascades(goalId, managerId) ==
    /\ LET res == approveGoalError(goalId, managerId) IN
        /\ goals' = IF res = "ok"
                    THEN [g \in 1 .. Len(goals) |->
                            IF goals[g].employee_id = goals[goalId].employee_id
                                    /\ goals[g].status = "Pending_Approval"
                            THEN approveGoalRow(goals[g], managerId)
                            ELSE goals[g]]
                    ELSE goals
        /\ last' = [op |-> "approveGoal", a |-> goalId, b |-> managerId, res |-> res]
    /\ UNCHANGED <<users, memberships, achievements, calls, clock>>

ApproveGoal(goalId, managerId) ==
    /\ LET res == approveGoalError(goalId, managerId) IN
        /\ goals' = IF res = "ok"
                    THEN [goals EXCEPT ![goalId] = approveGoalRow(goals[goalId], managerId)]
                    ELSE goals
        /\ last' = [op |-> "approveGoal", a |-> goalId, b |-> managerId, res |-> res]
    /\ UNCHANGED <<users, memberships, achievements, calls, clock>>

----------------------------------------------------------------------------
(* approveGoal, one awaited query at a time *)

\* the request's call has returned or thrown res
Finish(p, res) ==
    /\ calls' = [calls EXCEPT ![p].pc = "done", ![p].res = res]
    /\ last' = [op |-> calls[p].op, a |-> calls[p].a, b |-> calls[p].b, res |-> res]

\* const now = new Date(), read in the turn that passes the last check
TakeNow(p) ==
    /\ clock' = clock + 1
    /\ calls' = [calls EXCEPT ![p].pc = "update", ![p].now = clock + 1]
    /\ UNCHANGED <<last, achievements>>

\* faulty variant: the update carries WHERE status = 'Pending_Approval'
approveGoalUpdateIfPending(goal, managerId, now) ==
    IF goal.status = "Pending_Approval"
    THEN [approveGoalRow(goal, managerId) EXCEPT !.approval_date = now, !.updated_at = now]
    ELSE goal

\* the row after .set({...}).where(eq(goalsTable.id, goalId)), with the
\* request's own reading of the clock
approveGoalUpdate(goal, managerId, now) ==
    [approveGoalRow(goal, managerId) EXCEPT !.approval_date = now, !.updated_at = now]

ApproveGoalReceive(p, goalId, managerId) ==
    /\ calls[p].pc = "idle"
    /\ calls' = [calls EXCEPT ![p] = [IdleCall EXCEPT !.op = "approveGoal", !.pc = "readGoal",
                                                       !.a = goalId, !.b = managerId]]
    /\ UNCHANGED <<users, goals, memberships, achievements, last, clock>>

\* select the goal; goal found and status checks on the row that was read
ApproveGoalReadGoal(p) ==
    /\ calls[p].op = "approveGoal" /\ calls[p].pc = "readGoal"
    /\ LET existingGoal == selectGoalById(calls[p].a) IN
        IF Len(existingGoal) = 0 THEN Finish(p, "Goal not found")
        ELSE IF existingGoal[1].status # "Pending_Approval"
            THEN Finish(p, "Goal is not pending approval")
        ELSE /\ calls' = [calls EXCEPT ![p].pc = "readManager", ![p].goal = existingGoal]
             /\ UNCHANGED last
    /\ UNCHANGED <<users, goals, memberships, achievements, clock>>

\* select the acting user; role and canApprove checks
ApproveGoalReadManager(p) ==
    /\ calls[p].op = "approveGoal" /\ calls[p].pc = "readManager"
    /\ LET manager == selectUserById(calls[p].b) IN
        IF Len(manager) = 0
            THEN Finish(p, "Manager not found") /\ UNCHANGED <<achievements, clock>>
        ELSE IF manager[1].role \notin ManagementRoles
            THEN /\ Finish(p, "User does not have permission to approve goals")
                 /\ UNCHANGED <<achievements, clock>>
        ELSE IF canApprove(calls[p].goal[1], manager[1], calls[p].b) THEN TakeNow(p)
        ELSE /\ calls' = [calls EXCEPT ![p].pc = "readEmployee"]
             /\ UNCHANGED <<last, achievements, clock>>
    /\ UNCHANGED <<users, goals, memberships, achievements>>

\* select the goal's employee; direct-manager check
ApproveGoalReadEmployee(p) ==
    /\ calls[p].op = "approveGoal" /\ calls[p].pc = "readEmployee"
    /\ LET employee == selectUserById(calls[p].goal[1].employee_id) IN
        IF Len(employee) = 0
            THEN Finish(p, "Employee not found") /\ UNCHANGED <<achievements, clock>>
        ELSE IF employee[1].manager_id # calls[p].b
            THEN Finish(p, "Manager does not have permission to approve this goal")
                 /\ UNCHANGED <<achievements, clock>>
        ELSE TakeNow(p)
    /\ UNCHANGED <<users, goals, memberships, achievements>>

\* the update commits
ApproveGoalUpdate(p) ==
    /\ calls[p].op = "approveGoal" /\ calls[p].pc = "update"
    /\ goals' = [goals EXCEPT ![calls[p].a] =
                    approveGoalUpdate(goals[calls[p].a], calls[p].b, calls[p].now)]
    /\ Finish(p, "ok")
    /\ UNCHANGED <<users, memberships, achievements, clock>>

----------------------------------------------------------------------------
(* createGoal, updateGoal and approveGoal with a clock that moves *)

\* the ids of the goals that have the status Approved now or had it before,
\* `before` being those that had it at some earlier time
everApproved(before) ==
    before \cup {g \in 1 .. Len(goals) : goals[g].status = "Approved"}

\* Every call that writes reads the clock one tick later than the write
\* before it.  `last` also keeps the input of the call, the row that the call
\* read (`current`) and, as a record of the past, the ids of the goals that
\* had the status Approved at some time before the call.
CreateGoalTimed(input) ==
    /\ LET res == createGoalError(input) IN
        /\ goals' = IF res = "ok"
                    THEN Append(goals, [createGoalRow(input) EXCEPT !.created_at = clock + 1,
                                                                    !.updated_at = clock + 1])
                    ELSE goals
        /\ clock' = IF res = "ok" THEN clock + 1 ELSE clock
        /\ last' = [op |-> "createGoal", a |-> input.employee_id, b |-> input.manager_id,
                    res |-> res, input |-> input, current |-> <<>>,
                    approved |-> everApproved(last.approved)]
    /\ UNCHANGED <<users, memberships, achievements, calls>>

UpdateGoalTimed(input) ==
    /\ LET res == updateGoalError(input) IN
        /\ goals' = IF res = "ok"
                    THEN [goals EXCEPT ![input.id] =
                            updateGoalRowAt(goals[input.id], input, clock + 1)]
                    ELSE goals
        /\ clock' = IF res = "ok" THEN clock + 1 ELSE clock
        /\ last' = [op |-> "updateGoal", a |-> input.id, b |-> NULL, res |-> res,
                    input |-> input, current |-> selectGoalById(input.id),
                    approved |-> everApproved(last.approved)]
    /\ UNCHANGED <<users, memberships, achievements, calls>>

ApproveGoalTimed(goalId, managerId) ==
    /\ LET res == approveGoalError(goalId, managerId) IN
        /\ goals' = IF res = "ok"
                    THEN [goals EXCEPT ![goalId] =
                            approveGoalUpdate(goals[goalId], managerId, clock + 1)]
                    ELSE goals
        /\ clock' = IF res = "ok" THEN clock + 1 ELSE clock
        /\ last' = [op |-> "approveGoal", a |-> goalId, b |-> managerId, res |-> res,
                    input |-> NULL, current |-> selectGoalById(goalId),
                    approved |-> everApproved(last.approved)]
    /\ UNCHANGED <<users, memberships, achievements, calls>>

----------------------------------------------------------------------------
(* createAchievement *)

\* faulty variant: the goal is looked up but its employee_id is not compared
createAchievementErrorNoOwnerCheck(input) ==
    IF Len(selectUserById(input.employee_id)) = 0 THEN "Employee not found"
    ELSE IF input.goal_id # NULL /\ Len(selectGoalById(input.goal_id)) = 0
        THEN "Goal not found"
    ELSE "ok"

\* the checks before the insert, in the order of the code; goal_id is
\* compared with null, so 0 is looked up as any other id
createAchievementError(input) ==
    IF Len(selectUserById(input.employee_id)) = 0 THEN "Employee not found"
    ELSE IF input.goal_id # NULL /\ Len(selectGoalById(input.goal_id)) = 0
        THEN "Goal not found"
    ELSE IF input.goal_id # NULL
            /\ selectGoalById(input.goal_id)[1].employee_id # input.employee_id
        THEN "Goal does not belong to employee"
    ELSE "ok"

CreateAchievement(input) ==
    /\ LET res == createAchievementError(input) IN
        /\ achievements' = IF res = "ok"
                           THEN Append(achievements, [employee_id |-> input.employee_id,
                                                      goal_id |-> input.goal_id])
                           ELSE achievements
        /\ last' = [op |-> "createAchievement", a |-> input.employee_id,
                    b |-> input.goal_id, res |-> res]
    /\ UNCHANGED <<users, goals, memberships, calls, clock>>

----------------------------------------------------------------------------
(* createTeamMembership *)

RECURSIVE checkCircularReporting(_, _, _)
RECURSIVE checkCircularReportingLoop(_, _, _, _)

\* One call of the recursive closure.  `visited` is one Set object shared by
\* the whole recursion, so a call returns it as it leaves it.  `queries` lists
\* the ids whose managers the call and the calls below it selected, in order:
\* the select is run right after visited.add(managerId).
checkCircularReporting(managerId, employeeId, visited) ==
    IF managerId \in visited
    THEN [found |-> FALSE, visited |-> visited, queries |-> <<>>]
    ELSE LET r == checkCircularReportingLoop(managerMemberships(managerId), 1, employeeId,
                                             visited \cup {managerId})
         IN  [r EXCEPT !.queries = <<managerId>> \o @]

\* faulty variant: the loop returns what the first recursive call returns
checkCircularReportingLoopFirstOnly(rows, i, employeeId, visited) ==
    IF i > Len(rows) THEN [found |-> FALSE, visited |-> visited, queries |-> <<>>]
    ELSE IF rows[i].manager_id = employeeId
        THEN [found |-> TRUE, visited |-> visited, queries |-> <<>>]
    ELSE checkCircularReporting(rows[i].manager_id, employeeId, visited)

\* faulty variant: each recursive call works on its own copy of the visited
\* set, so what it adds is not seen by the rest of the loop
checkCircularReportingLoopCopiesVisited(rows, i, employeeId, visited) ==
    IF i > Len(rows) THEN [found |-> FALSE, visited |-> visited, queries |-> <<>>]
    ELSE IF rows[i].manager_id = employeeId
        THEN [found |-> TRUE, visited |-> visited, queries |-> <<>>]
    ELSE LET r == checkCircularReporting(rows[i].manager_id, employeeId, visited) IN
         IF r.found THEN r
         ELSE LET s == checkCircularReportingLoop(rows, i + 1, employeeId, visited)
              IN  [s EXCEPT !.queries = r.queries \o @]

\* for (const membership of managerMemberships), from row i on
checkCircularReportingLoop(rows, i, employeeId, visited) ==
    IF i > Len(rows) THEN [found |-> FALSE, visited |-> visited, queries |-> <<>>]
    ELSE IF rows[i].manager_id = employeeId
        THEN [found |-> TRUE, visited |-> visited, queries |-> <<>>]
    ELSE LET r == checkCircularReporting(rows[i].manager_id, employeeId, visited) IN
         IF r.found THEN r
         ELSE LET s == checkCircularReportingLoop(rows, i + 1, employeeId, r.visited)
              IN  [s EXCEPT !.queries = r.queries \o @]

\* faulty variant: only the direct managers of managerId are looked at
hasCircularReportingDirectOnly(managerId, employeeId) ==
    \E i \in 1 .. Len(managerMemberships(managerId)) :
        managerMemberships(managerId)[i].manager_id = employeeId

\* const hasCircularReporting = await checkCircularReporting(manager_id, employee_id)
hasCircularReporting(managerId, employeeId) ==
    checkCircularReporting(managerId, employeeId, {}).found

\* faulty variant: the role check comes before the self-reporting check
createTeamMembershipErrorRoleFirst(input) ==
    IF Len(selectUserById(input.manager_id)) = 0 THEN "Manager does not exist"
    ELSE IF Len(selectUserById(input.employee_id)) = 0 THEN "Employee does not exist"
    ELSE IF selectUserById(input.manager_id)[1].role \notin ManagementRoles
        THEN "User must have Manager, HR_Admin, or System_Admin role"
    ELSE IF input.manager_id = input.employee_id THEN "Employee cannot manage themselves"
    ELSE IF Len(selectMembership(input.manager_id, input.employee_id)) > 0
        THEN "Team membership already exists"
    ELSE IF hasCircularReporting(input.manager_id, input.employee_id)
        THEN "would create circular reporting relationship"
    ELSE "ok"

\* faulty variant: the self-reporting check is left out
createTeamMembershipErrorNoSelfCheck(input) ==
    IF Len(selectUserById(input.manager_id)) = 0 THEN "Manager does not exist"
    ELSE IF Len(selectUserById(input.employee_id)) = 0 THEN "Employee does not exist"
    ELSE IF selectUserById(input.manager_id)[1].role \notin ManagementRoles
        THEN "User must have Manager, HR_Admin, or System_Admin role"
    ELSE IF Len(selectMembership(input.manager_id, input.employee_id)) > 0
        THEN "Team membership already exists"
    ELSE IF hasCircularReporting(input.manager_id, input.employee_id)
        THEN "would create circular reporting relationship"
    ELSE "ok"

\* faulty variant: the check for an existing identical row is left out
createTeamMembershipErrorNoDuplicateCheck(input) ==
    IF Len(selectUserById(input.manager_id)) = 0 THEN "Manager does not exist"
    ELSE IF Len(selectUserById(input.employee_id)) = 0 THEN "Employee does not exist"
    ELSE IF input.manager_id = input.employee_id THEN "Employee cannot manage themselves"
    ELSE IF selectUserById(input.manager_id)[1].role \notin ManagementRoles
        THEN "User must have Manager, HR_Admin, or System_Admin role"
    ELSE IF hasCircularReporting(input.manager_id, input.employee_id)
        THEN "would create circular reporting relationship"
    ELSE "ok"

\* faulty variant: the manager's role is not checked
createTeamMembershipErrorNoRoleCheck(input) ==
    IF Len(selectUserById(input.manager_id)) = 0 THEN "Manager does not exist"
    ELSE IF Len(selectUserById(input.employee_id)) = 0 THEN "Employee does not exist"
    ELSE IF input.manager_id = input.employee_id THEN "Employee cannot manage themselves"
    ELSE IF Len(selectMembership(input.manager_id, input.employee_id)) > 0
        THEN "Team membership already exists"
    ELSE IF hasCircularReporting(input.manager_id, input.employee_id)
        THEN "would create circular reporting relationship"
    ELSE "ok"

\* faulty variant: the cycle check also follows the manager's User.manager_id
createTeamMembershipErrorFollowsManagerId(input) ==
    IF Len(selectUserById(input.manager_id)) = 0 THEN "Manager does not exist"
    ELSE IF Len(selectUserById(input.employee_id)) = 0 THEN "Employee does not exist"
    ELSE IF input.manager_id = input.employee_id THEN "Employee cannot manage themselves"
    ELSE IF selectUserById(input.manager_id)[1].role \notin ManagementRoles
        THEN "User must have Manager, HR_Admin, or System_Admin role"
    ELSE IF Len(selectMembership(input.manager_id, input.employee_id)) > 0
        THEN "Team membership already exists"
    ELSE IF \/ hasCircularReporting(input.manager_id, input.employee_id)
            \/ selectUserById(input.manager_id)[1].manager_id = input.employee_id
        THEN "would create circular reporting relationship"
    ELSE "ok"

createTeamMembershipError(input) ==
    IF Len(selectUserById(input.manager_id)) = 0 THEN "Manager does not exist"
    ELSE IF Len(selectUserById(input.employee_id)) = 0 THEN "Employee does not exist"
    ELSE IF input.manager_id = input.employee_id THEN "Employee cannot manage themselves"
    ELSE IF selectUserById(input.manager_id)[1].role \notin ManagementRoles
        THEN "User must have Manager, HR_Admin, or System_Admin role"
    ELSE IF Len(selectMembership(input.manager_id, input.employee_id)) > 0
        THEN "Team membership already exists"
    ELSE IF hasCircularReporting(input.manager_id, input.employee_id)
        THEN "would create circular reporting relationship"
    ELSE "ok"

CreateTeamMembership(input) ==
    /\ LET res == createTeamMembershipError(input) IN
        /\ memberships' = IF res = "ok"
                          THEN Append(memberships, [manager_id |-> input.manager_id,
                                                    employee_id |-> input.employee_id])
                          ELSE memberships
        /\ last' = [op |-> "createTeamMembership", a |-> input.manager_id,
                    b |-> input.employee_id, res |-> res]
    /\ UNCHANGED <<users, goals, achievements, calls, clock>>

\* checkCircularReporting called on its own, on the table as it stands
CheckCircularReporting(managerId, employeeId) ==
    /\ last' = [op |-> "checkCircularReporting", a |-> managerId, b |-> employeeId,
                res |-> IF hasCircularReporting(managerId, employeeId) THEN "true" ELSE "false"]
    /\ UNCHANGED <<users, goals, memberships, achievements, calls, clock>>

----------------------------------------------------------------------------
(* createTeamMembership, one awaited query at a time *)

RECURSIVE checkCircularReportingResume(_, _, _)

\* The recursion between two selects.  `stack` holds, innermost last, the
\* loops that are under way as [rows, i]: the rows a call selected and the
\* row its loop is at.  The result says that the check has ended (found or
\* not) or that the next select is due, for the managers of `node`.
checkCircularReportingResume(stack, employeeId, visited) ==
    IF Len(stack) = 0
    THEN [status |-> "false", node |-> NULL, stack |-> stack, visited |-> visited]
    ELSE LET top == stack[Len(stack)]
             below == SubSeq(stack, 1, Len(stack) - 1)
         IN  IF top.i > Len(top.rows)
             THEN checkCircularReportingResume(below, employeeId, visited)
             ELSE LET next == top.rows[top.i].manager_id
                      moved == Append(below, [rows |-> top.rows, i |-> top.i + 1])
                  IN  IF next = employeeId
                      THEN [status |-> "true", node |-> NULL, stack |-> <<>>,
                            visited |-> visited]
                      ELSE IF next \in visited
                      THEN checkCircularReportingResume(moved, employeeId, visited)
                      ELSE [status |-> "select", node |-> next, stack |-> moved,
                            visited |-> visited \cup {next}]

MembershipReceive(p, input) ==
    /\ calls[p].pc = "idle"
    /\ calls' = [calls EXCEPT ![p] = [IdleCall EXCEPT !.op = "createTeamMembership",
                                                       !.pc = "readUsers",
                                                       !.a = input.manager_id,
                                                       !.b = input.employee_id]]
    /\ UNCHANGED <<users, goals, memberships, achievements, last, clock>>

\* the two selects of Promise.all; existence, self-reporting and role checks
MembershipReadUsers(p) ==
    /\ calls[p].op = "createTeamMembership" /\ calls[p].pc = "readUsers"
    /\ LET manager == selectUserById(calls[p].a)
           employee == selectUserById(calls[p].b)
       IN  IF Len(manager) = 0 THEN Finish(p, "Manager does not exist")
           ELSE IF Len(employee) = 0 THEN Finish(p, "Employee does not exist")
           ELSE IF calls[p].a = calls[p].b THEN Finish(p, "Employee cannot manage themselves")
           ELSE IF manager[1].role \notin ManagementRoles
               THEN Finish(p, "User must have Manager, HR_Admin, or System_Admin role")
           ELSE /\ calls' = [calls EXCEPT ![p].pc = "readExisting"]
                /\ UNCHANGED last
    /\ UNCHANGED <<users, goals, memberships, achievements, clock>>

\* select the rows with this pair; then the outermost checkCircularReporting
\* call marks the manager visited and is about to select its managers
MembershipReadExisting(p) ==
    /\ calls[p].op = "createTeamMembership" /\ calls[p].pc = "readExisting"
    /\ IF Len(selectMembership(calls[p].a, calls[p].b)) > 0
       THEN Finish(p, "Team membership already exists")
       ELSE /\ calls' = [calls EXCEPT ![p].pc = "readManagers", ![p].node = calls[p].a,
                                      ![p].visited = {calls[p].a}]
            /\ UNCHANGED last
    /\ UNCHANGED <<users, goals, memberships, achievements, clock>>

\* select the managers of `node`, then run the loops up to the next select
MembershipReadManagers(p) ==
    /\ calls[p].op = "createTeamMembership" /\ calls[p].pc = "readManagers"
    /\ LET rows == managerMemberships(calls[p].node)
           r == checkCircularReportingResume(
                    Append(calls[p].stack, [rows |-> rows, i |-> 1]),
                    calls[p].b, calls[p].visited)
       IN  IF r.status = "true"
           THEN Finish(p, "would create circular reporting relationship")
           ELSE IF r.status = "false"
           THEN /\ calls' = [calls EXCEPT ![p].pc = "insert", ![p].stack = <<>>]
                /\ UNCHANGED last
           ELSE /\ calls' = [calls EXCEPT ![p].node = r.node, ![p].stack = r.stack,
                                          ![p].visited = r.visited]
                /\ UNCHANGED last
    /\ UNCHANGED <<users, goals, memberships, achievements, clock>>

\* the insert commits
MembershipInsert(p) ==
    /\ calls[p].op = "createTeamMembership" /\ calls[p].pc = "insert"
    /\ memberships' = Append(memberships, [manager_id |-> calls[p].a,
                                           employee_id |-> calls[p].b])
    /\ Finish(p, "ok")
    /\ UNCHANGED <<users, goals, achievements, clock>>

----------------------------------------------------------------------------
(* The reporting graph of the stored membership rows, as a relation *)

UserExists(id) == id \in 1 .. Len(users)

\* the managers, by one membership row, of the users in S
ManagersOf(S) ==
    {memberships[i].manager_id :
        i \in {j \in 1 .. Len(memberships) : memberships[j].employee_id \in S}}

RECURSIVE UpwardClosure(_)
UpwardClosure(S) ==
    LET T == S \cup ManagersOf(S) IN IF T = S THEN S ELSE UpwardClosure(T)

\* the direct and transitive managers of n: one or more rows upwards
Ancestors(n) == UpwardClosure(ManagersOf({n}))

InSomeRow(id) ==
    \E i \in 1 .. Len(memberships) :
        memberships[i].manager_id = id \/ memberships[i].employee_id = id

ManagesSomeone(id) == \E i \in 1 .. Len(memberships) : memberships[i].manager_id = id

HasRow(m, e) ==
    \E i \in 1 .. Len(memberships) :
        memberships[i].manager_id = m /\ memberships[i].employee_id = e

CircularError == "would create circular reporting relationship"
RoleError == "User must have Manager, HR_Admin, or System_Admin role"

----------------------------------------------------------------------------
(* Specifications *)

Init ==
    /\ users = <<>>
    /\ goals = <<>>
    /\ memberships = <<>>
    /\ last = [op |-> "none", a |-> NULL, b |-> NULL, res |-> "ok"]
    /\ calls = [p \in Requests |-> IdleCall]
    /\ clock = Now
    /\ achievements = <<>>

\* Emails are opaque strings: the caller of createUser offers either the next
\* unused one or one that is already taken.
TeamCreateUserInputs ==
    [email : 1 .. Len(users) + 1, role : {"Employee", "Manager"}, manager_id : {NULL}]

TeamUpdateUserInputs ==
    [id : 1 .. MaxUsers, email : {UNDEF}, role : {"Employee", "Manager"}, manager_id : {UNDEF}]

TeamMembershipInputs == [manager_id : 1 .. MaxUsers, employee_id : 1 .. MaxUsers]

\* Bounding the tables: a call that would insert is taken only while the table
\* is below its bound; a call that is rejected is always taken.
Room(res, table, bound) == res = "ok" => Len(table) < bound

NextTeam ==
    \/ \E input \in TeamCreateUserInputs :
            Room(createUserError(input), users, MaxUsers) /\ CreateUser(input)
    \/ \E input \in TeamUpdateUserInputs : UpdateUser(input)
    \/ \E input \in TeamMembershipInputs :
            /\ Room(createTeamMembershipError(input), memberships, MaxMemberships)
            /\ CreateTeamMembership(input)

SpecTeam == Init /\ [][NextTeam]_vars

\* The hierarchy specification: the calls that build the reporting graph,
\* with every user keeping the role it was created with.
NextHierarchy ==
    \/ \E input \in TeamCreateUserInputs :
            Room(createUserError(input), users, MaxUsers) /\ CreateUser(input)
    \/ \E input \in TeamMembershipInputs :
            /\ Room(createTeamMembershipError(input), memberships, MaxMemberships)
            /\ CreateTeamMembership(input)

SpecHierarchy == Init /\ [][NextHierarchy]_vars

\* The cycle check as a function of the table.  team_memberships has no
\* constraint on its (manager_id, employee_id) pairs, and requests that run
\* at the same time, or rows written by other means, can leave duplicates and
\* cycles in it; only a row with manager_id = employee_id is refused on the
\* input alone.  The check is called with a manager in 1 .. MaxNodes and an
\* employee that may also be a user in no row (MaxNodes + 1).
MembershipRows ==
    {r \in [manager_id : 1 .. MaxNodes, employee_id : 1 .. MaxNodes] :
        r.manager_id # r.employee_id}

InitCycle ==
    /\ users = <<>>
    /\ goals = <<>>
    /\ memberships \in UNION {[1 .. n -> MembershipRows] : n \in 0 .. MaxRows}
    /\ last = [op |-> "none", a |-> NULL, b |-> NULL, res |-> "ok"]
    /\ calls = [p \in Requests |-> IdleCall]
    /\ clock = Now
    /\ achievements = <<>>

NextCycle ==
    \E managerId \in 1 .. MaxNodes, employeeId \in 1 .. MaxNodes + 1 :
        managerId # employeeId /\ CheckCircularReporting(managerId, employeeId)

SpecCycle == InitCycle /\ [][NextCycle]_vars

\* The reporting specification: a fixed set of users, the first an Employee
\* and the others Managers; updateUser moves any user under any manager (or
\* none) through User.manager_id, and createTeamMembership adds rows.
InitReporting ==
    /\ users = [i \in 1 .. MaxUsers |->
                    [email |-> i, role |-> IF i = 1 THEN "Employee" ELSE "Manager",
                     manager_id |-> NULL]]
    /\ goals = <<>>
    /\ memberships = <<>>
    /\ achievements = <<>>
    /\ last = [op |-> "none", a |-> NULL, b |-> NULL, res |-> "ok"]
    /\ calls = [p \in Requests |-> IdleCall]
    /\ clock = Now

ReportingUpdateUserInputs ==
    [id : 1 .. MaxUsers, email : {UNDEF}, role : {"undefined"},
     manager_id : {NULL} \cup 1 .. MaxUsers]

NextReporting ==
    \/ \E input \in ReportingUpdateUserInputs : UpdateUser(input)
    \/ \E input \in TeamMembershipInputs :
            /\ Room(createTeamMembershipError(input), memberships, MaxMemberships)
            /\ CreateTeamMembership(input)

SpecReporting == InitReporting /\ [][NextReporting]_vars

\* The user specification: createUser and updateUser with every manager_id
\* the input schemas let through (z.number().nullable()): null, 0, the id of
\* an existing user, an id no user has.
UserCreateUserInputs ==
    [email : 1 .. Len(users) + 1, role : {"Employee", "Manager"},
     manager_id : {NULL} \cup 0 .. MaxAccounts]

UserUpdateUserInputs ==
    [id : 1 .. MaxAccounts, email : {UNDEF}, role : {"undefined"},
     manager_id : {UNDEF, NULL} \cup 0 .. MaxAccounts]

NextUser ==
    \/ \E input \in UserCreateUserInputs :
            Room(createUserError(input), users, MaxAccounts) /\ CreateUser(input)
    \/ \E input \in UserUpdateUserInputs : UpdateUser(input)

SpecUser == Init /\ [][NextUser]_vars

\* The account-creation specification: createUser alone, with every role and
\* with manager ids that are null, 0, the id of a user or the id of no user.
AccountCreateUserInputs ==
    [email : 1 .. Len(users) + 1, role : Roles, manager_id : {NULL} \cup 0 .. MaxAccounts]

NextAccounts ==
    \E input \in AccountCreateUserInputs :
        Room(createUserError(input), users, MaxAccounts) /\ CreateUser(input)

SpecAccounts == Init /\ [][NextAccounts]_vars

\* The goal specification: users with every role and direct-report edge, and
\* goals that are created, moved between statuses and approved.
GoalCreateUserInputs ==
    [email : {Len(users) + 1}, role : Roles, manager_id : {NULL} \cup 1 .. MaxActors]

GoalUpdateUserInputs ==
    [id : 1 .. MaxActors, email : {UNDEF}, role : {"undefined"},
     manager_id : {NULL} \cup 1 .. MaxActors]

\* the descriptive fields of a goal, as two sample inputs
GoalTexts ==
    {[title |-> "t1", description |-> "d1", priority |-> "Low", due_date |-> NULL],
     [title |-> "t2", description |-> "d2", priority |-> "High", due_date |-> InputDate]}

CreateGoalInputs ==
    {[title |-> t.title, description |-> t.description, priority |-> t.priority,
      due_date |-> t.due_date, employee_id |-> e, manager_id |-> m] :
        t \in GoalTexts, e \in 1 .. MaxActors, m \in {NULL} \cup 1 .. MaxActors}

\* updateGoal with only `status` given
StatusUpdateInputs ==
    [id : 1 .. MaxGoals, title : {"undefined"}, description : {"undefined"},
     priority : {"undefined"}, status : GoalStatuses, manager_id : {UNDEF},
     due_date : {UNDEF}, completed_date : {UNDEF}, approval_date : {UNDEF}]

NextGoal ==
    \/ \E input \in GoalCreateUserInputs :
            Room(createUserError(input), users, MaxActors) /\ CreateUser(input)
    \/ \E input \in GoalUpdateUserInputs : UpdateUser(input)
    \/ \E input \in CreateGoalInputs :
            Room(createGoalError(input), goals, MaxGoals) /\ CreateGoal(input)
    \/ \E input \in StatusUpdateInputs : UpdateGoal(input)
    \/ \E goalId \in 1 .. MaxGoals, managerId \in 1 .. MaxActors :
            ApproveGoal(goalId, managerId)

SpecGoal == Init /\ [][NextGoal]_vars

\* The server specification: every operation of the router that writes the
\* users, goals or team_memberships table.  The other mutations write other
\* tables only, and the queries write nothing.
ServerMembershipInputs == [manager_id : 1 .. MaxActors, employee_id : 1 .. MaxActors]

NextServer ==
    \/ NextGoal
    \/ \E input \in ServerMembershipInputs :
            /\ Room(createTeamMembershipError(input), memberships, MaxMemberships)
            /\ CreateTeamMembership(input)

SpecServer == Init /\ [][NextServer]_vars

\* The goal-dates specification: createGoal, updateGoal and approveGoal with
\* a moving clock, on users 1 .. MaxActors that createUser can leave.
\* updateGoal is given any status or none, and for each of completed_date and
\* approval_date nothing, null or a date.
InitDates ==
    /\ \E roles \in [1 .. MaxActors -> {"Employee", "HR_Admin"}] :
            users = [i \in 1 .. MaxActors |->
                        [email |-> i, role |-> roles[i], manager_id |-> NULL]]
    /\ goals = <<>>
    /\ memberships = <<>>
    /\ last = [op |-> "none", a |-> NULL, b |-> NULL, res |-> "ok", input |-> NULL,
               current |-> <<>>, approved |-> {}]
    /\ calls = [p \in Requests |-> IdleCall]
    /\ clock = Now
    /\ achievements = <<>>

\* createGoal without a manager
DateCreateGoalInputs == {input \in CreateGoalInputs : input.manager_id = NULL}

DateUpdateInputs ==
    [id : 1 .. MaxGoals, title : {"undefined"}, description : {"undefined"},
     priority : {"undefined"}, status : GoalStatuses \cup {"undefined"}, manager_id : {UNDEF},
     due_date : {UNDEF}, completed_date : {UNDEF, NULL, InputDate},
     approval_date : {UNDEF, NULL, InputDate}]

\* a call that would write is taken only while the clock is below its bound
Tick(res) == res = "ok" => clock < MaxTime

NextDates(updateInputs) ==
    \/ \E input \in DateCreateGoalInputs :
            /\ Room(createGoalError(input), goals, MaxGoals)
            /\ Tick(createGoalError(input))
            /\ CreateGoalTimed(input)
    \/ \E input \in updateInputs :
            Tick(updateGoalError(input)) /\ UpdateGoalTimed(input)
    \/ \E goalId \in 1 .. MaxGoals, managerId \in 1 .. MaxActors :
            Tick(approveGoalError(goalId, managerId)) /\ ApproveGoalTimed(goalId, managerId)

SpecGoalDates == InitDates /\ [][NextDates(DateUpdateInputs)]_vars

\* The goal-dates specification without an explicit approval_date in any
\* updateGoal input, and the one without an explicit completed_date.
NoApprovalDateInputs == {input \in DateUpdateInputs : input.approval_date = UNDEF}

NoCompletedDateInputs == {input \in DateUpdateInputs : input.completed_date = UNDEF}

SpecNoApprovalDate == InitDates /\ [][NextDates(NoApprovalDateInputs)]_vars

SpecNoCompletedDate == InitDates /\ [][NextDates(NoCompletedDateInputs)]_vars

\* The goal-fields specification: as the goal-dates specification, with
\* createGoal naming a manager and updateGoal given any one or two of the
\* fields below, or none, and the id of a goal or an id no goal has.
FieldCreateGoalInputs ==
    {input \in CreateGoalInputs : input.manager_id # NULL /\ input.title = "t2"}

FieldUpdateInputs ==
    {input \in [id : 1 .. MaxGoals + 1, title : {"undefined", "t3"},
                description : {"undefined", "d3"}, priority : {"undefined", "Critical"},
                status : {"undefined", "Completed"}, manager_id : {UNDEF, NULL},
                due_date : {UNDEF, NULL}, completed_date : {UNDEF},
                approval_date : {UNDEF}] :
        Cardinality({f \in {"title", "description", "priority", "status"} :
                        input[f] # "undefined"}
                    \cup {f \in {"manager_id", "due_date"} : input[f] # UNDEF}) <= 2}

NextFields ==
    \/ \E input \in FieldCreateGoalInputs :
            /\ Room(createGoalError(input), goals, MaxGoals)
            /\ Tick(createGoalError(input))
            /\ CreateGoalTimed(input)
    \/ \E input \in FieldUpdateInputs :
            Tick(updateGoalError(input)) /\ UpdateGoalTimed(input)
    \/ \E goalId \in 1 .. MaxGoals, managerId \in 1 .. MaxActors :
            Tick(approveGoalError(goalId, managerId)) /\ ApproveGoalTimed(goalId, managerId)

SpecGoalFields == InitDates /\ [][NextFields]_vars

\* The achievement specification: two users, goals that are created, moved
\* between statuses and approved, and achievements recorded for an employee
\* with no goal, with an own goal, with another employee's goal or with the
\* id of no goal.
InitAchievements ==
    /\ \E roles \in [1 .. MaxActors -> {"Employee", "HR_Admin"}] :
            users = [i \in 1 .. MaxActors |->
                        [email |-> i, role |-> roles[i], manager_id |-> NULL]]
    /\ goals = <<>>
    /\ memberships = <<>>
    /\ achievements = <<>>
    /\ last = [op |-> "none", a |-> NULL, b |-> NULL, res |-> "ok"]
    /\ calls = [p \in Requests |-> IdleCall]
    /\ clock = Now

CreateAchievementInputs ==
    [employee_id : 1 .. MaxActors + 1, goal_id : {NULL} \cup 0 .. MaxGoals + 1]

NextAchievements ==
    \/ \E input \in DateCreateGoalInputs :
            Room(createGoalError(input), goals, MaxGoals) /\ CreateGoal(input)
    \/ \E input \in StatusUpdateInputs : UpdateGoal(input)
    \/ \E goalId \in 1 .. MaxGoals, managerId \in 1 .. MaxActors :
            ApproveGoal(goalId, managerId)
    \/ \E input \in CreateAchievementInputs :
            /\ Room(createAchievementError(input), achievements, MaxAchievements)
            /\ CreateAchievement(input)

SpecAchievements == InitAchievements /\ [][NextAchievements]_vars

\* The frame specification: approveGoal and createTeamMembership on tables
\* with more than one goal.  The tables it starts on are tables that
\* createUser, updateUser, createGoal and updateGoal can leave: users
\* 1 .. MaxActors of any role but System_Admin, one more user with the
\* Employee role, and MaxGoals + 1 pending goals of that user.
FrameGoalRow(managerId) ==
    [createGoalRow([title |-> "t1", description |-> "d1", priority |-> "Low",
                    due_date |-> NULL, employee_id |-> MaxActors + 1,
                    manager_id |-> managerId])
        EXCEPT !.status = "Pending_Approval"]

InitFrame ==
    /\ \E roles \in [1 .. MaxActors -> {"Employee", "Manager", "HR_Admin"}],
          directManager \in {NULL} \cup 1 .. MaxActors :
            users = [i \in 1 .. MaxActors + 1 |->
                        IF i <= MaxActors
                        THEN [email |-> i, role |-> roles[i], manager_id |-> NULL]
                        ELSE [email |-> i, role |-> "Employee", manager_id |-> directManager]]
    /\ \E managers \in [1 .. MaxGoals + 1 -> {NULL} \cup 1 .. MaxActors] :
            goals = [g \in 1 .. MaxGoals + 1 |-> FrameGoalRow(managers[g])]
    /\ memberships = <<>>
    /\ last = [op |-> "none", a |-> NULL, b |-> NULL, res |-> "ok"]
    /\ calls = [p \in Requests |-> IdleCall]
    /\ clock = Now
    /\ achievements = <<>>

FrameMembershipInputs ==
    [manager_id : 1 .. MaxActors + 1, employee_id : 1 .. MaxActors + 1]

NextFrame ==
    \/ \E goalId \in 1 .. MaxGoals + 1, managerId \in 1 .. MaxActors :
            ApproveGoal(goalId, managerId)
    \/ \E input \in FrameMembershipInputs :
            /\ Room(createTeamMembershipError(input), memberships, MaxMemberships)
            /\ CreateTeamMembership(input)

SpecFrame == InitFrame /\ [][NextFrame]_vars

\* The approval race: two approveGoal requests run at the same time, their
\* reads and their update interleaved, on tables that createUser, updateUser,
\* createGoal and updateGoal can leave: users 1 .. MaxActors of any role but
\* System_Admin, one more user whose goals are up for approval, and
\* MaxGoals goals of that user that are pending approval.
RaceGoalRow(managerId) ==
    [createGoalRow([title |-> "t1", description |-> "d1", priority |-> "Low",
                    due_date |-> NULL, employee_id |-> MaxActors + 1,
                    manager_id |-> managerId])
        EXCEPT !.status = "Pending_Approval"]

InitApprovalRace ==
    /\ \E roles \in [1 .. MaxActors -> {"Employee", "Manager", "HR_Admin"}],
          directManager \in {NULL} \cup 1 .. MaxActors :
            users = [i \in 1 .. MaxActors + 1 |->
                        IF i <= MaxActors
                        THEN [email |-> i, role |-> roles[i], manager_id |-> NULL]
                        ELSE [email |-> i, role |-> "Employee", manager_id |-> directManager]]
    /\ \E managers \in [1 .. MaxGoals -> {NULL} \cup 1 .. MaxActors] :
            goals = [g \in 1 .. MaxGoals |-> RaceGoalRow(managers[g])]
    /\ memberships = <<>>
    /\ last = [op |-> "none", a |-> NULL, b |-> NULL, res |-> "ok"]
    /\ calls = [p \in Requests |-> IdleCall]
    /\ clock = Now
    /\ achievements = <<>>

NextApprovalRace ==
    \E p \in Requests :
        \/ \E goalId \in 1 .. MaxGoals, managerId \in 1 .. MaxActors :
                ApproveGoalReceive(p, goalId, managerId)
        \/ ApproveGoalReadGoal(p)
        \/ ApproveGoalReadManager(p)
        \/ ApproveGoalReadEmployee(p)
        \/ ApproveGoalUpdate(p)

SpecApprovalRace == InitApprovalRace /\ [][NextApprovalRace]_vars

\* The transfer specification: users 1 .. MaxActors are Managers or HR
\* admins, one more user is an Employee who reports to user 1 and owns
\* MaxGoals pending goals; updateUser moves any user under any of the
\* managers (or none), approveGoal is called by any of them, and updateGoal
\* puts a goal back to Pending_Approval.
InitTransfer ==
    /\ \E roles \in [1 .. MaxActors -> {"Manager", "HR_Admin"}] :
            users = [i \in 1 .. MaxActors + 1 |->
                        IF i <= MaxActors
                        THEN [email |-> i, role |-> roles[i], manager_id |-> NULL]
                        ELSE [email |-> i, role |-> "Employee", manager_id |-> 1]]
    /\ \E managers \in [1 .. MaxGoals -> {NULL} \cup 1 .. MaxActors] :
            goals = [g \in 1 .. MaxGoals |-> RaceGoalRow(managers[g])]
    /\ memberships = <<>>
    /\ achievements = <<>>
    /\ last = [op |-> "none", a |-> NULL, b |-> NULL, res |-> "ok"]
    /\ calls = [p \in Requests |-> IdleCall]
    /\ clock = Now

TransferUpdateUserInputs ==
    [id : 1 .. MaxActors + 1, email : {UNDEF}, role : {"undefined"},
     manager_id : {NULL} \cup 1 .. MaxActors]

NextTransfer ==
    \/ \E input \in TransferUpdateUserInputs : UpdateUser(input)
    \/ \E goalId \in 1 .. MaxGoals, managerId \in 1 .. MaxActors :
            ApproveGoal(goalId, managerId)
    \/ \E input \in {i \in StatusUpdateInputs : i.status = "Pending_Approval"} :
            UpdateGoal(input)

SpecTransfer == InitTransfer /\ [][NextTransfer]_vars

\* The membership race: two createTeamMembership requests run at the same
\* time, their selects and their insert interleaved.  The tables they start
\* on are tables that calls made one after the other leave: MaxUsers users,
\* and up to MaxMemberships - 2 rows without a self-loop, a repeated pair or
\* a cycle.
RaceMembershipTables ==
    {t \in UNION {[1 .. n -> [manager_id : 1 .. MaxUsers, employee_id : 1 .. MaxUsers]] :
                    n \in 0 .. MaxMemberships - 2} :
        /\ \A i \in 1 .. Len(t) : t[i].manager_id # t[i].employee_id
        /\ \A i, j \in 1 .. Len(t) : t[i] = t[j] => i = j}

InitMembershipRace ==
    /\ \E roles \in [1 .. MaxUsers -> {"Employee", "Manager"}] :
            users = [i \in 1 .. MaxUsers |->
                        [email |-> i, role |-> roles[i], manager_id |-> NULL]]
    /\ goals = <<>>
    /\ memberships \in RaceMembershipTables
    /\ \A i \in 1 .. Len(memberships) :
            users[memberships[i].manager_id].role \in ManagementRoles
    /\ \A n \in 1 .. MaxUsers : n \notin Ancestors(n)
    /\ last = [op |-> "none", a |-> NULL, b |-> NULL, res |-> "ok"]
    /\ calls = [p \in Requests |-> IdleCall]
    /\ clock = Now
    /\ achievements = <<>>

NextMembershipRace ==
    \E p \in Requests :
        \/ \E input \in TeamMembershipInputs : MembershipReceive(p, input)
        \/ MembershipReadUsers(p)
        \/ MembershipReadExisting(p)
        \/ MembershipReadManagers(p)
        \/ MembershipInsert(p)

SpecMembershipRace == InitMembershipRace /\ [][NextMembershipRace]_vars

----------------------------------------------------------------------------
(* Claims about createTeamMembership, under SpecHierarchy, SpecTeam and SpecCycle *)

\* C1: after any sequence of createTeamMembership calls run one after the
\* other from an empty table, the graph of the stored rows has no cycle: no
\* user is its own direct or transitive manager.
C1_NoCycle == \A n \in 1 .. MaxUsers : n \notin Ancestors(n)

\* a call that would have closed a chain of two or more rows was rejected
C1_Witness ==
    /\ last.op = "createTeamMembership"
    /\ last.res = CircularError
    /\ last.b \in Ancestors(last.a)
    /\ last.b \notin ManagersOf({last.a})

\* C8: createTeamMembership reports the error of the first failing check in
\* the order manager exists, employee exists, ids differ, manager's role,
\* no identical row, no cycle; and it inserts the row exactly when all pass.
C8_CheckOrder ==
    [][last'.op = "createTeamMembership" =>
        LET m == last'.a
            e == last'.b
            res == last'.res
            bothExist == UserExists(m) /\ UserExists(e)
            roleOk == users[m].role \in ManagementRoles
        IN  /\ (res = "Manager does not exist") = ~UserExists(m)
            /\ (res = "Employee does not exist") = (UserExists(m) /\ ~UserExists(e))
            /\ (res = "Employee cannot manage themselves") = (bothExist /\ m = e)
            /\ (res = RoleError) = (bothExist /\ m # e /\ ~roleOk)
            /\ (res = "Team membership already exists")
                    = (bothExist /\ m # e /\ roleOk /\ HasRow(m, e))
            /\ (res = CircularError)
                    = (bothExist /\ m # e /\ roleOk /\ ~HasRow(m, e) /\ e \in Ancestors(m))
            /\ (res = "ok")
                    = (bothExist /\ m # e /\ roleOk /\ ~HasRow(m, e) /\ e \notin Ancestors(m))
            /\ memberships' = IF res = "ok"
                              THEN Append(memberships, [manager_id |-> m, employee_id |-> e])
                              ELSE memberships
    ]_vars

\* two checks fail at once: an Employee names itself, and the earlier check reports
C8_Witness ==
    /\ last.op = "createTeamMembership"
    /\ last.res = "Employee cannot manage themselves"
    /\ users[last.a].role = "Employee"

\* C9 as stated: closing any chain A->...->N by createTeamMembership(N, A) is
\* rejected with the circular-reporting error, and createTeamMembership(A, X)
\* succeeds for an existing user X that is in no membership row.  (A rejected
\* call leaves the tables as they were, so the state after it is the state it ran in.)
C9_AsStated ==
    last.op = "createTeamMembership" =>
        /\ last.b \in Ancestors(last.a) => last.res = CircularError
        /\ (ManagesSomeone(last.a) /\ UserExists(last.b) /\ ~InSomeRow(last.b))
                => last.res = "ok"

\* C9 amended: the closing call is rejected with the circular-reporting error
\* when N's role is Manager, HR_Admin or System_Admin and with the role error
\* when it is not; createTeamMembership(A, X) succeeds when A's role is one of
\* these three.
C9_ChainClosing ==
    last.op = "createTeamMembership" =>
        /\ (last.b \in Ancestors(last.a) /\ users[last.a].role \in ManagementRoles)
                => last.res = CircularError
        /\ (last.b \in Ancestors(last.a) /\ users[last.a].role \notin ManagementRoles)
                => last.res = RoleError
        /\ (ManagesSomeone(last.a) /\ UserExists(last.b) /\ ~InSomeRow(last.b)
                /\ users[last.a].role \in ManagementRoles)
                => last.res = "ok"

\* the last user of a chain of two rows tried to manage its first user
C9_Witness ==
    /\ last.op = "createTeamMembership"
    /\ last.res = CircularError
    /\ \E mid \in 1 .. MaxUsers : HasRow(last.b, mid) /\ HasRow(mid, last.a)

\* C10: for two distinct user ids, checkCircularReporting(manager, employee)
\* is true exactly when employee is a direct or transitive manager of manager
\* in the table; the visited set hides no reachable manager.
C10_CycleCheckIsReachability ==
    \A m \in 1 .. MaxNodes, e \in 1 .. MaxNodes + 1 :
        m # e => (hasCircularReporting(m, e) <=> e \in Ancestors(m))

\* two paths converge on one manager, who is walked once and skipped once,
\* and the employee asked about is not above the manager asked about
C10_Witness ==
    /\ last.op = "checkCircularReporting"
    /\ last.res = "false"
    /\ \E top \in 1 .. MaxNodes, mid \in 1 .. MaxNodes :
        /\ HasRow(top, mid) /\ HasRow(mid, last.a) /\ HasRow(top, last.a)
        /\ Cardinality({top, mid, last.a, last.b}) = 4

\* C11: checkCircularReporting terminates on every table, tables with cycles
\* and with converging paths included, and within one call it selects the
\* managers of a user id at most once: the ids it queries are pairwise
\* different, and each is the manager asked about or a manager of some row.
C11_EachNodeQueriedOnce ==
    \A m \in 1 .. MaxNodes, e \in 1 .. MaxNodes + 1 :
        m # e =>
            LET q == checkCircularReporting(m, e, {}).queries
            IN  /\ \A i, j \in 1 .. Len(q) : q[i] = q[j] => i = j
                /\ \A i \in 1 .. Len(q) : q[i] = m \/ ManagesSomeone(q[i])
                /\ Len(q) >= 1 /\ q[1] = m
                /\ Len(q) <= MaxNodes

\* the check ran to its end on a table with a cycle through the manager asked
\* about, who has two direct managers
C11_Witness ==
    /\ last.op = "checkCircularReporting"
    /\ last.res = "false"
    /\ last.a \in Ancestors(last.a)
    /\ Cardinality(ManagersOf({last.a})) = 2

SelfError == "Employee cannot manage themselves"
AlreadyExistsError == "Team membership already exists"

\* C12: createTeamMembership with manager_id equal to employee_id is rejected
\* in every state and inserts nothing, so no stored membership row has
\* manager_id equal to employee_id.
C12_SelfManagementRejected ==
    /\ [](\A i \in 1 .. Len(memberships) :
            memberships[i].manager_id # memberships[i].employee_id)
    /\ [][(last'.op = "createTeamMembership" /\ last'.a = last'.b)
            => (last'.res # "ok" /\ memberships' = memberships)]_vars

\* a user with the Manager role who already manages someone named itself
C12_Witness ==
    /\ last.op = "createTeamMembership"
    /\ last.a = last.b
    /\ last.res = SelfError
    /\ users[last.a].role = "Manager"
    /\ ManagesSomeone(last.a)

\* C13: after any sequence of createTeamMembership calls run one after the
\* other, no two stored rows have the same (manager_id, employee_id) pair; a
\* call whose pair is already stored is rejected with the already-exists
\* error and inserts nothing.
C13_NoDuplicateRows ==
    /\ [](\A i, j \in 1 .. Len(memberships) :
            (/\ memberships[i].manager_id = memberships[j].manager_id
             /\ memberships[i].employee_id = memberships[j].employee_id) => i = j)
    /\ [][(last'.op = "createTeamMembership" /\ HasRow(last'.a, last'.b))
            => (last'.res = AlreadyExistsError /\ memberships' = memberships)]_vars

\* a stored pair was offered again while other rows exist
C13_Witness ==
    /\ last.op = "createTeamMembership"
    /\ last.res = AlreadyExistsError
    /\ HasRow(last.a, last.b)
    /\ Len(memberships) >= 2

\* C14: createTeamMembership whose manager_id names a user with the Employee
\* role is rejected and inserts nothing, whatever the employee_id and the
\* stored rows; a row is inserted only when the manager's role at the time of
\* the call is Manager, HR_Admin or System_Admin.
C14_RoleGate ==
    [][last'.op = "createTeamMembership" =>
        /\ (UserExists(last'.a) /\ users[last'.a].role = "Employee")
                => (last'.res # "ok" /\ memberships' = memberships)
        /\ memberships' # memberships
                => (UserExists(last'.a) /\ users[last'.a].role \in ManagementRoles)
    ]_vars

\* a user who manages someone, and has since been given the Employee role,
\* was refused a further report
C14_Witness ==
    /\ last.op = "createTeamMembership"
    /\ last.res = RoleError
    /\ ManagesSomeone(last.a)
    /\ ~HasRow(last.a, last.b)

----------------------------------------------------------------------------
(* Claims about createUser and updateUser, under SpecUser *)

\* C15: in every state reachable through createUser and updateUser, no user
\* has manager_id equal to its own id.
C15_AsStated == \A i \in 1 .. Len(users) : users[i].manager_id # i

\* updateUser stored a user's own id as its manager_id
C15_Witness ==
    /\ last.op = "updateUser"
    /\ last.res = "ok"
    /\ last.a = last.b
    /\ users[last.a].manager_id = last.a

\* the user named by id existed when the last call ran
ExistedBefore(id) ==
    IF last.op = "createUser" /\ last.res = "ok"
    THEN id \in 1 .. Len(users) - 1
    ELSE UserExists(id)

\* C16: in every state reachable through createUser and updateUser, a user's
\* manager_id is null or the id of an existing user; and a createUser or
\* updateUser call with a non-null manager_id (0 included) that names no
\* existing user is rejected.
C16_AsStated ==
    /\ \A i \in 1 .. Len(users) :
            users[i].manager_id # NULL => UserExists(users[i].manager_id)
    /\ (last.op \in {"createUser", "updateUser"} /\ last.b \notin {NULL, UNDEF}
            /\ ~ExistedBefore(last.b)) => last.res # "ok"

\* createUser stored manager_id 0, which is the id of no user
C16_Witness ==
    /\ last.op = "createUser"
    /\ last.res = "ok"
    /\ last.b = 0
    /\ users[Len(users)].manager_id = 0

----------------------------------------------------------------------------
(* Claims about approveGoal and the goal statuses, under SpecGoal *)

GoalExists(id) == id \in 1 .. Len(goals)

AdminRoles == {"HR_Admin", "System_Admin"}

NotPendingError == "Goal is not pending approval"
InsufficientRoleError == "User does not have permission to approve goals"
NoPermissionError == "Manager does not have permission to approve this goal"

\* the acting user u is the manager of record of the goal's employee
IsDirectManager(g, u) ==
    /\ UserExists(goals[g].employee_id)
    /\ users[goals[g].employee_id].manager_id = u

\* the authorization predicate of the approval, in the state the call runs in
MayApprove(g, u) ==
    \/ goals[g].manager_id = u
    \/ users[u].role \in AdminRoles
    \/ IsDirectManager(g, u)

\* C2: approveGoal succeeds exactly when the goal exists, is pending
\* approval, the acting user exists, has a management role, and is the goal's
\* manager, an admin, or the direct manager of the goal's employee; an admin
\* succeeds on a pending goal whatever its manager_id, and a manager with
\* none of the three relations gets the no-permission error.
C2_ApproveSucceedsExactlyWhen ==
    [][last'.op = "approveGoal" =>
        LET g == last'.a
            u == last'.b
            ready == GoalExists(g) /\ goals[g].status = "Pending_Approval" /\ UserExists(u)
        IN  /\ (last'.res = "ok")
                    = (ready /\ users[u].role \in ManagementRoles /\ MayApprove(g, u))
            /\ (ready /\ users[u].role \in AdminRoles) => last'.res = "ok"
            /\ (ready /\ users[u].role = "Manager" /\ ~MayApprove(g, u))
                    => last'.res = NoPermissionError
    ]_vars

\* a System_Admin approved a goal whose employee reports to someone else
C2_Witness ==
    /\ last.op = "approveGoal"
    /\ last.res = "ok"
    /\ users[last.b].role = "System_Admin"
    /\ users[goals[last.a].employee_id].manager_id # last.b

\* C3 as stated: for a pending goal and an existing acting user U, whatever
\* U's role, the approval succeeds if U is the goal's manager, and if U is the
\* direct manager of the goal's employee, is not the goal's manager and is no admin.
C3_AsStated ==
    [][last'.op = "approveGoal" =>
        LET g == last'.a
            u == last'.b
            ready == GoalExists(g) /\ goals[g].status = "Pending_Approval" /\ UserExists(u)
        IN  /\ (ready /\ goals[g].manager_id = u) => last'.res = "ok"
            /\ (ready /\ IsDirectManager(g, u) /\ goals[g].manager_id # u
                    /\ users[u].role \notin AdminRoles) => last'.res = "ok"
    ]_vars

\* C3 amended: the same, for an acting user whose role is Manager, HR_Admin
\* or System_Admin; a user with the Employee role is rejected with the
\* insufficient-role error even as the goal's manager or the direct manager.
C3_ManagerOrDirectManagerApproves ==
    [][last'.op = "approveGoal" =>
        LET g == last'.a
            u == last'.b
            ready == GoalExists(g) /\ goals[g].status = "Pending_Approval" /\ UserExists(u)
            related == \/ goals[g].manager_id = u
                       \/ (IsDirectManager(g, u) /\ goals[g].manager_id # u
                                /\ users[u].role \notin AdminRoles)
        IN  /\ (ready /\ related /\ users[u].role \in ManagementRoles) => last'.res = "ok"
            /\ (ready /\ related /\ users[u].role \notin ManagementRoles)
                    => last'.res = InsufficientRoleError
    ]_vars

\* a Manager who is the direct manager of the goal's employee approved it
C3_Witness ==
    /\ last.op = "approveGoal"
    /\ last.res = "ok"
    /\ users[last.b].role = "Manager"
    /\ users[goals[last.a].employee_id].manager_id = last.b

\* C4: approveGoal reports the error of the first failing check in the order
\* goal exists, goal is pending approval, acting user exists, acting user has
\* a management role, acting user has permission for this goal.
C4_FirstFailingCheck ==
    [][last'.op = "approveGoal" =>
        LET g == last'.a
            u == last'.b
            res == last'.res
            pending == GoalExists(g) /\ goals[g].status = "Pending_Approval"
        IN  /\ (res = "Goal not found") = ~GoalExists(g)
            /\ (res = NotPendingError) = (GoalExists(g) /\ goals[g].status # "Pending_Approval")
            /\ (res = "Manager not found") = (pending /\ ~UserExists(u))
            /\ (res = InsufficientRoleError)
                    = (pending /\ UserExists(u) /\ users[u].role \notin ManagementRoles)
            /\ (res = NoPermissionError)
                    = (pending /\ UserExists(u) /\ users[u].role \in ManagementRoles
                            /\ ~MayApprove(g, u))
            /\ res \in {"ok", "Goal not found", NotPendingError, "Manager not found",
                        InsufficientRoleError, NoPermissionError}
    ]_vars

\* a Draft goal and an acting user that does not exist: the status check reports
C4_Witness ==
    /\ last.op = "approveGoal"
    /\ last.res = NotPendingError
    /\ goals[last.a].status = "Draft"
    /\ ~UserExists(last.b)

\* C5: approveGoal on an existing goal that is not pending approval is
\* rejected with the not-pending error whoever the acting user is, and
\* leaves the goal as it was; so an approved goal cannot be approved again.
C5_NotPendingRejected ==
    [][(last'.op = "approveGoal" /\ GoalExists(last'.a)
            /\ goals[last'.a].status # "Pending_Approval")
        => (last'.res = NotPendingError /\ goals' = goals)
    ]_vars

\* an approval of an approved goal, by an admin, was rejected
C5_Witness ==
    /\ last.op = "approveGoal"
    /\ last.res = NotPendingError
    /\ goals[last.a].status = "Approved"
    /\ UserExists(last.b)
    /\ users[last.b].role \in AdminRoles

\* C6: a successful approveGoal leaves the goal Approved, with an approval
\* date, with the acting user as its manager, and with title, description,
\* priority, employee_id, due_date, completed_date and created_at as before.
C6_ApprovalEffect ==
    [][(last'.op = "approveGoal" /\ last'.res = "ok") =>
        LET before == goals[last'.a]
            after == goals'[last'.a]
        IN  /\ after.status = "Approved"
            /\ after.approval_date # NULL
            /\ after.manager_id = last'.b
            /\ after.title = before.title
            /\ after.description = before.description
            /\ after.priority = before.priority
            /\ after.employee_id = before.employee_id
            /\ after.due_date = before.due_date
            /\ after.completed_date = before.completed_date
            /\ after.created_at = before.created_at
    ]_vars

\* an approved goal that has a due date, approved by a user who was not given
\* as its manager when it was created
C6_Witness ==
    /\ last.op = "approveGoal"
    /\ last.res = "ok"
    /\ goals[last.a].due_date = InputDate
    /\ goals[last.a].title = "t2"
    /\ goals[last.a].manager_id = last.b

\* C7 as stated: in every run of createGoal, updateGoal and approveGoal, a
\* goal whose status changes to Approved was pending approval just before.
C7_AsStated ==
    [][\A g \in 1 .. Len(goals) :
        (goals[g].status # "Approved" /\ goals'[g].status = "Approved")
            => goals[g].status = "Pending_Approval"
    ]_vars

\* C7 amended: when approveGoal changes a goal's status to Approved, the goal
\* was pending approval just before, and createGoal stores a goal as Draft;
\* updateGoal sets the status it is given, Approved included, from any status.
C7_ApprovedOnlyFromPending ==
    [][last'.op # "updateGoal" =>
            /\ \A g \in 1 .. Len(goals) :
                (goals[g].status # "Approved" /\ goals'[g].status = "Approved")
                    => (last'.op = "approveGoal" /\ goals[g].status = "Pending_Approval")
            /\ \A g \in Len(goals) + 1 .. Len(goals') : goals'[g].status = "Draft"
    ]_vars

\* a goal went from Pending_Approval to Approved by approveGoal
C7_Witness ==
    /\ last.op = "approveGoal"
    /\ last.res = "ok"
    /\ goals[last.a].status = "Approved"
    /\ goals[last.a].completed_date = NULL

----------------------------------------------------------------------------
(* Claims about all the operations together, under SpecServer *)

\* C17: a rejected createTeamMembership or approveGoal call leaves the users,
\* goals and team_memberships tables as they were; a successful one writes
\* its own table only, once.
C17_RejectedCallWritesNothing ==
    [][last'.op \in {"createTeamMembership", "approveGoal"} =>
        /\ last'.res # "ok"
                => (users' = users /\ goals' = goals /\ memberships' = memberships)
        /\ (last'.res = "ok" /\ last'.op = "createTeamMembership")
                => (users' = users /\ goals' = goals
                        /\ Len(memberships') = Len(memberships) + 1)
        /\ (last'.res = "ok" /\ last'.op = "approveGoal")
                => (users' = users /\ memberships' = memberships
                        /\ \A g \in 1 .. Len(goals) : g # last'.a => goals'[g] = goals[g])
    ]_vars

\* an approval of a pending goal was rejected at the last check, in a state
\* with a membership row
C17_Witness ==
    /\ last.op = "approveGoal"
    /\ last.res = NoPermissionError
    /\ goals[last.a].status = "Pending_Approval"
    /\ Len(memberships) >= 1

\* C20: across the operations, the users, goals and team_memberships tables
\* only grow: no step removes a row, and a stored membership row keeps its
\* manager_id and employee_id.
C20_TablesOnlyGrow ==
    [][/\ Len(users') >= Len(users)
       /\ Len(goals') >= Len(goals)
       /\ Len(memberships') >= Len(memberships)
       /\ \A i \in 1 .. Len(memberships) : memberships'[i] = memberships[i]
    ]_vars

\* a goal was set to Cancelled and is still stored, next to a membership row
C20_Witness ==
    /\ last.op = "updateGoal"
    /\ last.res = "ok"
    /\ goals[last.a].status = "Cancelled"
    /\ Len(memberships) >= 1
    /\ Len(users) = MaxActors

----------------------------------------------------------------------------
(* Claims about requests that run at the same time *)

\* request p has returned successfully
Succeeded(p) == calls[p].pc = "done" /\ calls[p].res = "ok"

\* C18: two approveGoal requests by two different authorized users for one
\* pending goal can both pass the status check and both succeed; the update
\* is not conditioned on the status, so whenever both have succeeded the goal
\* carries the manager_id and the approval_date of the request whose update
\* committed last.
C18_LastWriteWins ==
    \A p, q \in Requests :
        (/\ Succeeded(p) /\ Succeeded(q)
         /\ calls[p].a = calls[q].a /\ calls[p].b # calls[q].b
         /\ last.b = calls[q].b)
            => /\ goals[calls[q].a].status = "Approved"
               /\ goals[calls[q].a].manager_id = calls[q].b
               /\ goals[calls[q].a].approval_date = calls[q].now
               /\ goals[calls[q].a].updated_at = calls[q].now

\* both requests, by different users, succeeded on the same goal, and the one
\* that committed last had read the clock first
C18_Witness ==
    \E p, q \in Requests :
        /\ Succeeded(p) /\ Succeeded(q)
        /\ calls[p].a = calls[q].a /\ calls[p].b # calls[q].b
        /\ last.b = calls[q].b
        /\ calls[q].now < calls[p].now
        /\ goals[calls[q].a].manager_id = calls[q].b

\* C19: with two createTeamMembership requests interleaved query by query,
\* the membership table never holds two rows with the same (manager_id,
\* employee_id) pair and never holds a cycle.
C19_AsStated ==
    /\ \A i, j \in 1 .. Len(memberships) : memberships[i] = memberships[j] => i = j
    /\ \A n \in 1 .. MaxUsers : n \notin Ancestors(n)

\* both requests succeeded and their two rows close a cycle with a row that
\* was stored before
C19_Witness ==
    /\ \A p \in Requests : Succeeded(p)
    /\ \E x, y, z \in 1 .. MaxUsers :
        /\ Cardinality({x, y, z}) = 3
        /\ HasRow(x, y) /\ HasRow(y, z) /\ HasRow(z, x)

\* both requests succeeded with the same pair, which is now stored twice
C19_DuplicateWitness ==
    /\ \A p \in Requests : Succeeded(p)
    /\ \E i, j \in 1 .. Len(memberships) : i # j /\ memberships[i] = memberships[j]

----------------------------------------------------------------------------
(* Claims about what a successful call writes, under SpecFrame *)

\* C21: a successful approveGoal writes the approved goal's row and nothing
\* else: no other goal, no user and no membership row changes.  A successful
\* createTeamMembership appends exactly one membership row, the pair it was
\* given, and changes no user and no goal.
C21_SingleWrite ==
    [][/\ (last'.op = "approveGoal" /\ last'.res = "ok")
            => /\ users' = users /\ memberships' = memberships
               /\ Len(goals') = Len(goals)
               /\ goals'[last'.a] # goals[last'.a]
               /\ \A g \in 1 .. Len(goals) : g # last'.a => goals'[g] = goals[g]
       /\ (last'.op = "createTeamMembership" /\ last'.res = "ok")
            => /\ users' = users /\ goals' = goals
               /\ memberships' = Append(memberships, [manager_id |-> last'.a,
                                                      employee_id |-> last'.b])
    ]_vars

\* a goal was approved while another goal of the same employee stays pending,
\* with a membership row stored
C21_Witness ==
    /\ last.op = "approveGoal"
    /\ last.res = "ok"
    /\ Len(memberships) >= 1
    /\ \E g \in 1 .. Len(goals) :
        /\ g # last.a
        /\ goals[g].employee_id = goals[last.a].employee_id
        /\ goals[g].status = "Pending_Approval"

----------------------------------------------------------------------------
(* Claims about the dates of a goal, under the goal-dates specifications *)

\* the last call was an updateGoal that wrote, with a status in its input and
\* neither date given explicitly
StatusOnlyUpdate ==
    /\ last.op = "updateGoal" /\ last.res = "ok"
    /\ last.input.status # "undefined"
    /\ last.input.completed_date = UNDEF
    /\ last.input.approval_date = UNDEF

\* that update moved the goal into Approved from another status
EnteredApproved ==
    StatusOnlyUpdate /\ last.input.status = "Approved" /\ last.current[1].status # "Approved"

\* C22 as stated: a status update that moves a goal out of Completed clears
\* completed_date; one that moves it into Approved for the first time sets
\* approval_date; one that moves it into Approved again, after it had left,
\* is no first entry and leaves approval_date as it was.
C22_AsStated ==
    /\ (StatusOnlyUpdate /\ last.current[1].status = "Completed"
            /\ last.input.status # "Completed") => goals[last.a].completed_date = NULL
    /\ (EnteredApproved /\ last.a \notin last.approved)
            => goals[last.a].approval_date = clock
    /\ (EnteredApproved /\ last.a \in last.approved)
            => goals[last.a].approval_date = last.current[1].approval_date

\* C22 amended: a status update that moves a goal out of Completed clears
\* completed_date; one that moves it into Approved from any other status,
\* for the first time or again, sets approval_date to the time of the call;
\* one that leaves the status at Approved, or sets another status, leaves
\* approval_date as it was.
C22_DatesFollowStatus ==
    /\ (StatusOnlyUpdate /\ last.current[1].status = "Completed"
            /\ last.input.status # "Completed") => goals[last.a].completed_date = NULL
    /\ EnteredApproved => goals[last.a].approval_date = clock
    /\ (StatusOnlyUpdate /\ ~EnteredApproved)
            => goals[last.a].approval_date = last.current[1].approval_date

\* a goal that had been approved before moved from Completed into Approved
\* again: its completed_date was cleared and its approval_date replaced
C22_Witness ==
    /\ EnteredApproved
    /\ last.a \in last.approved
    /\ last.current[1].status = "Completed"
    /\ last.current[1].completed_date # NULL
    /\ last.current[1].approval_date \notin {NULL, clock}
    /\ goals[last.a].completed_date = NULL
    /\ goals[last.a].approval_date = clock

\* C23: in updateGoal a completed_date or approval_date given in the input
\* wins over the date derived from the status transition of the same call:
\* the stored date is the input value, null included, whatever the old and
\* the new status.
C23_ExplicitDateWins ==
    (last.op = "updateGoal" /\ last.res = "ok") =>
        /\ last.input.completed_date # UNDEF
                => goals[last.a].completed_date = last.input.completed_date
        /\ last.input.approval_date # UNDEF
                => goals[last.a].approval_date = last.input.approval_date

\* a goal was moved into Completed with completed_date given as null and an
\* approval_date given: the goal is Completed without a completed_date
C23_Witness ==
    /\ last.op = "updateGoal" /\ last.res = "ok"
    /\ last.input.status = "Completed" /\ last.current[1].status # "Completed"
    /\ last.input.completed_date = NULL
    /\ goals[last.a].completed_date = NULL
    /\ last.input.approval_date = InputDate
    /\ goals[last.a].approval_date = InputDate
    /\ clock # InputDate

----------------------------------------------------------------------------
(* Claims about the fields updateGoal writes, under SpecGoalFields *)

\* C24: updateGoal writes the fields that are present in its input, with the
\* input's values, updated_at, and the dates derived from a status in the
\* input; every other field keeps its value.  No operation changes the
\* employee_id of a stored goal.  updateGoal with an id no goal has is
\* rejected with 'Goal not found' and writes nothing.
C24_OnlyGivenFieldsChange ==
    /\ []((last.op = "updateGoal" /\ last.res = "ok") =>
            LET in == last.input
                before == last.current[1]
                after == goals[last.a]
            IN  /\ after.title = IF in.title # "undefined" THEN in.title ELSE before.title
                /\ after.description = IF in.description # "undefined" THEN in.description
                                       ELSE before.description
                /\ after.priority = IF in.priority # "undefined" THEN in.priority
                                    ELSE before.priority
                /\ after.status = IF in.status # "undefined" THEN in.status ELSE before.status
                /\ after.manager_id = IF in.manager_id # UNDEF THEN in.manager_id
                                      ELSE before.manager_id
                /\ after.due_date = IF in.due_date # UNDEF THEN in.due_date
                                    ELSE before.due_date
                /\ (in.status = "undefined" /\ in.completed_date = UNDEF)
                        => after.completed_date = before.completed_date
                /\ (in.status = "undefined" /\ in.approval_date = UNDEF)
                        => after.approval_date = before.approval_date
                /\ after.employee_id = before.employee_id
                /\ after.created_at = before.created_at
                /\ after.updated_at = clock)
    /\ [][/\ \A g \in 1 .. Len(goals) : goals'[g].employee_id = goals[g].employee_id
          /\ (last'.op = "updateGoal" /\ ~GoalExists(last'.a))
                => (last'.res = "Goal not found" /\ goals' = goals /\ users' = users
                        /\ memberships' = memberships)
          /\ (last'.op = "updateGoal" /\ GoalExists(last'.a)) => last'.res = "ok"
       ]_vars

\* only the title of a goal that has a manager and a due date was updated
C24_Witness ==
    /\ last.op = "updateGoal" /\ last.res = "ok"
    /\ last.input.title = "t3"
    /\ last.input.manager_id = UNDEF /\ last.input.due_date = UNDEF
    /\ goals[last.a].title = "t3"
    /\ goals[last.a].manager_id \in 1 .. MaxActors
    /\ goals[last.a].due_date = InputDate
    /\ goals[last.a].description = "d2"

----------------------------------------------------------------------------
(* Claims about createUser alone, under SpecAccounts *)

\* the email was the email of a user before the last createUser call
EmailExistedBefore(email) ==
    \E i \in 1 .. (IF last.res = "ok" THEN Len(users) - 1 ELSE Len(users)) :
        users[i].email = email

\* C25: createUser is rejected when a user with the same email exists, when
\* the given manager_id names no existing user, or when it names a user whose
\* role is Employee; after any sequence of createUser calls no two users
\* share an email and every non-null manager_id names a user with a
\* management role.
C25_AsStated ==
    /\ last.op = "createUser" =>
            /\ EmailExistedBefore(last.a) => last.res # "ok"
            /\ (last.b # NULL /\ ~ExistedBefore(last.b)) => last.res # "ok"
            /\ (last.b # NULL /\ ExistedBefore(last.b)
                    /\ users[last.b].role = "Employee") => last.res # "ok"
    /\ \A i, j \in 1 .. Len(users) : users[i].email = users[j].email => i = j
    /\ \A i \in 1 .. Len(users) :
            users[i].manager_id # NULL =>
                /\ UserExists(users[i].manager_id)
                /\ users[users[i].manager_id].role \in ManagementRoles

\* createUser accepted manager_id 0 and stored it, while user 1 exists
C25_Witness ==
    /\ last.op = "createUser"
    /\ last.res = "ok"
    /\ last.b = 0
    /\ Len(users) = 2
    /\ users[2].manager_id = 0

----------------------------------------------------------------------------
(* Claims about achievements, under SpecAchievements *)

OtherEmployeeError == "Goal does not belong to employee"

\* C26: in every state reachable through createGoal, updateGoal, approveGoal
\* and createAchievement, every achievement with a non-null goal_id
\* references an existing goal whose employee_id is the achievement's
\* employee_id; createAchievement with a goal of another employee is
\* rejected and inserts nothing.
C26_AchievementGoalOwned ==
    /\ [](/\ \A i \in 1 .. Len(achievements) :
                achievements[i].goal_id # NULL =>
                    /\ GoalExists(achievements[i].goal_id)
                    /\ goals[achievements[i].goal_id].employee_id
                            = achievements[i].employee_id
          /\ (last.op = "createAchievement" /\ UserExists(last.a) /\ GoalExists(last.b)
                    /\ goals[last.b].employee_id # last.a) => last.res = OtherEmployeeError)
    /\ [][(last'.op = "createAchievement" /\ last'.res # "ok")
                => achievements' = achievements]_vars

\* an achievement of the goal's employee is stored, the goal has since left
\* Draft, and an achievement of the other employee for that goal was rejected
C26_Witness ==
    /\ Len(achievements) >= 1
    /\ achievements[1].goal_id = 1
    /\ goals[1].status # "Draft"
    /\ last.op = "createAchievement"
    /\ last.b = 1
    /\ last.res = OtherEmployeeError

----------------------------------------------------------------------------
(* Claims about the two reporting relations, under SpecReporting *)

\* the users table with every manager_id blanked
WithoutManagerIds(table) ==
    [i \in 1 .. Len(table) |-> [email |-> table[i].email, role |-> table[i].role]]

----------------------------------------------------------------------------
(* Claims about the dates when no input gives them *)

\* C28: in every state reachable through createGoal, approveGoal and
\* updateGoal calls of which none carries an explicit approval_date, every
\* goal whose status is Approved has a non-null approval_date.
C28_ApprovedHasDate ==
    \A g \in 1 .. Len(goals) : goals[g].status = "Approved" => goals[g].approval_date # NULL

\* updateGoal moved a goal that was never approved before into Approved
C28_Witness ==
    /\ last.op = "updateGoal" /\ last.res = "ok"
    /\ last.input.status = "Approved"
    /\ last.current[1].status # "Approved"
    /\ last.current[1].approval_date = NULL
    /\ goals[last.a].status = "Approved"
    /\ goals[last.a].approval_date = clock

\* C29: in every state reachable through createGoal, approveGoal and
\* updateGoal calls of which none carries an explicit completed_date, a
\* goal's completed_date is non-null if and only if its status is Completed.
C29_CompletedIffDate ==
    \A g \in 1 .. Len(goals) : goals[g].completed_date # NULL <=> goals[g].status = "Completed"

\* updateGoal moved a completed goal to another status and cleared the date
C29_Witness ==
    /\ last.op = "updateGoal" /\ last.res = "ok"
    /\ last.current[1].status = "Completed"
    /\ last.current[1].completed_date # NULL
    /\ last.input.status \notin {"undefined", "Completed"}
    /\ goals[last.a].completed_date = NULL

----------------------------------------------------------------------------
(* Claims about approveGoal after a change of manager, under SpecTransfer *)

\* the employee of the transfer specification, who starts under user 1
TransferEmployee == MaxActors + 1

\* C30: the direct-manager permission of approveGoal follows the employee's
\* manager_id as it is at the time of the call: for a pending goal of E whose
\* goal manager_id is not the acting user, approveGoal by a non-admin Manager
\* succeeds when E's manager_id is the acting user and is rejected with the
\* no-permission error otherwise, whoever E's manager was before.
C30_PermissionFollowsManagerId ==
    [][\A g \in 1 .. Len(goals) :
        (/\ last'.op = "approveGoal" /\ last'.a = g
         /\ goals[g].status = "Pending_Approval"
         /\ UserExists(last'.b) /\ users[last'.b].role = "Manager"
         /\ goals[g].manager_id # last'.b)
        => IF users[goals[g].employee_id].manager_id = last'.b
           THEN /\ last'.res = "ok"
                /\ goals'[g].status = "Approved"
                /\ goals'[g].manager_id = last'.b
           ELSE /\ last'.res = NoPermissionError
                /\ goals' = goals
      ]_vars

\* E started under user 1 and was moved to user 2; user 1, a non-admin
\* Manager as user 2 is, then asked to approve E's pending goal, which names
\* no manager, and was refused
C30_Witness ==
    /\ last.op = "approveGoal" /\ last.res = NoPermissionError /\ last.b = 1
    /\ users[TransferEmployee].manager_id = 2
    /\ users[1].role = "Manager" /\ users[2].role = "Manager"
    /\ goals[last.a].employee_id = TransferEmployee
    /\ goals[last.a].status = "Pending_Approval"
    /\ goals[last.a].manager_id = NULL

====
